---- MODULE Spec2Model ----
(***************************************************************************)
(* Model of Film_Manager_Final.py: the Show and User entities, the         *)
(* ShowManager store and its whole-document JSON persistence.              *)
(*                                                                         *)
(* Representation.                                                         *)
(*  - A rating is an exact rational <<n, d>> (d > 0, lowest terms); the    *)
(*    Python value None is the empty tuple.                                *)
(*  - Show instances live in a heap, a sequence of Show records; a Show    *)
(*    reference is a position in the heap.                                 *)
(*  - ShowManager._shows and ShowManager._users are dicts in insertion     *)
(*    order: sequences of [key, ref] entries and of User records.          *)
(*  - User._watchlist is a sequence of Show references; User._watched is   *)
(*    an insertion-ordered dict, a sequence of [show, rating] entries.     *)
(*  - Every Show handed to a User method is obtained from get_show (lines  *)
(*    385, 414, 605-618), as at every call site of the program.            *)
(*  - The data file is absent, a parsed JSON document, or unparsable.      *)
(***************************************************************************)
EXTENDS Integers, Sequences, FiniteSets, TLC

----------------------------------------------------------------------------
(* Bounds and input domains *)

\* the number of calls made on a ShowManager that a run explores
MaxOps == 5
MaxLimit == 2

None == <<>>

R(n) == <<n, 1>>

\* add_show inputs: <<title, genre, duration, rating>>
ShowInputs ==
    { <<"Heat", "Crime", 170, R(8)>>,
      <<"heat", "Drama", 95, R(0)>>,
      <<"Dune", "Crime", 155, R(11)>> }

\* lookups: exact keys and keys that match only when lower-cased
TitleInputs == {"Heat", "heat", "DUNE"}
UserInputs == {"ann", "BOB"}
NewUserInputs == {"ann", "bob"}
RatingInputs == {None, R(4), R(8), R(11)}
ValueInputs == {R(3), R(11)}

----------------------------------------------------------------------------
(* str.lower() on the strings of the model *)

Lower(s) ==
    CASE s = "Heat" -> "heat"
      [] s = "Dune" -> "dune"
      [] s = "DUNE" -> "dune"
      [] s = "BOB"  -> "bob"
      [] s = "A"    -> "a"
      [] s = "B"    -> "b"
      [] s = "C"    -> "c"
      [] OTHER      -> s

----------------------------------------------------------------------------
(* Rational arithmetic standing for Python float arithmetic *)

Abs(x) == IF x < 0 THEN -x ELSE x

RECURSIVE GCD(_, _)
GCD(a, b) == IF b = 0 THEN a ELSE GCD(b, a % b)

Frac(n, d) ==
    LET g == GCD(Abs(n), d) IN
    IF n = 0 THEN <<0, 1>> ELSE <<n \div g, d \div g>>

FracAdd(a, b) == Frac(a[1] * b[2] + b[1] * a[2], a[2] * b[2])

FracLess(a, b) == a[1] * b[2] < b[1] * a[2]

FracLeq(a, b) == a[1] * b[2] <= b[1] * a[2]

RECURSIVE SumRatings(_)
SumRatings(rs) ==
    IF rs = <<>> THEN R(0) ELSE FracAdd(rs[1], SumRatings(Tail(rs)))

\* sum(xs) / len(xs)
Mean(rs) == LET s == SumRatings(rs) IN Frac(s[1], s[2] * Len(rs))

\* 0 <= value <= 10
InRange(v) == FracLeq(R(0), v) /\ FracLeq(v, R(10))

----------------------------------------------------------------------------
(* class Show *)

ShowInit(title, genre, duration, rating) ==
    [title |-> title, genre |-> genre, duration |-> duration,
     rating |-> rating, user_ratings |-> <<>>]

RatingSetter(show, value) ==
    IF InRange(value)
    THEN [raised |-> FALSE, show |-> [show EXCEPT !.rating = value]]
    ELSE [raised |-> TRUE, show |-> show]

AddUserRating(show, rating) ==
    IF InRange(rating)
    THEN LET rs == Append(show.user_ratings, rating) IN
         [raised |-> FALSE,
          show |-> [show EXCEPT !.user_ratings = rs, !.rating = Mean(rs)]]
    ELSE [raised |-> TRUE, show |-> show]

ShowEq(a, b) == Lower(a.title) = Lower(b.title)

ShowLt(a, b) == FracLess(a.rating, b.rating)

ShowToDict(show) ==
    [title |-> show.title, genre |-> show.genre, duration |-> show.duration,
     rating |-> show.rating, user_ratings |-> show.user_ratings]

\* mutation: the user_ratings of the dictionary are not restored
ShowFromDict_NoUserRatings(data) ==
    ShowInit(data.title, data.genre, data.duration, data.rating)

ShowFromDict(data) ==
    [ShowInit(data.title, data.genre, data.duration, data.rating)
        EXCEPT !.user_ratings = data.user_ratings]

----------------------------------------------------------------------------
(* class User; hp is the heap of Show instances, s a reference into it *)

UserInit(username) ==
    [username |-> username, watchlist |-> <<>>, watched |-> <<>>]

InWatchlist(hp, user, s) ==
    \E i \in 1..Len(user.watchlist) :
        Lower(hp[user.watchlist[i]].title) = Lower(hp[s].title)

InWatched(hp, user, s) ==
    \E i \in 1..Len(user.watched) :
        Lower(hp[user.watched[i].show].title) = Lower(hp[s].title)

\* mutation: titles are compared as written
AddToWatchlist_CaseSensitive(hp, user, s) ==
    IF \/ \E i \in 1..Len(user.watchlist) :
             hp[user.watchlist[i]].title = hp[s].title
       \/ \E i \in 1..Len(user.watched) :
             hp[user.watched[i].show].title = hp[s].title
    THEN [ret |-> FALSE, user |-> user]
    ELSE [ret |-> TRUE,
          user |-> [user EXCEPT !.watchlist = Append(user.watchlist, s)]]

AddToWatchlist(hp, user, s) ==
    IF InWatchlist(hp, user, s) \/ InWatched(hp, user, s)
    THEN [ret |-> FALSE, user |-> user]
    ELSE [ret |-> TRUE,
          user |-> [user EXCEPT !.watchlist = Append(user.watchlist, s)]]

RECURSIVE WatchlistWithout(_, _, _)
WatchlistWithout(hp, wl, s) ==
    IF wl = <<>> THEN <<>>
    ELSE LET rest == WatchlistWithout(hp, Tail(wl), s) IN
         IF Lower(hp[Head(wl)].title) /= Lower(hp[s].title)
         THEN <<Head(wl)>> \o rest
         ELSE rest

\* self._watched[show] = rating: an equal key (__eq__/__hash__ on the
\* lower-cased title) keeps its key object and position, only the value changes
WatchedSet(hp, wd, s, rating) ==
    IF \E i \in 1..Len(wd) : ShowEq(hp[wd[i].show], hp[s])
    THEN [i \in 1..Len(wd) |->
            IF ShowEq(hp[wd[i].show], hp[s])
            THEN [show |-> wd[i].show, rating |-> rating]
            ELSE wd[i]]
    ELSE Append(wd, [show |-> s, rating |-> rating])

\* mutation: the show stays in the watchlist
MarkAsWatched_KeepsWatchlist(hp, user, s, user_rating) ==
    LET u1 == [user EXCEPT
                 !.watched = WatchedSet(hp, user.watched, s, user_rating)]
    IN IF user_rating /= None
       THEN LET r == AddUserRating(hp[s], user_rating) IN
            [raised |-> r.raised, user |-> u1,
             heap |-> [hp EXCEPT ![s] = r.show]]
       ELSE [raised |-> FALSE, user |-> u1, heap |-> hp]

MarkAsWatched(hp, user, s, user_rating) ==
    LET u1 == [user EXCEPT
                 !.watchlist = WatchlistWithout(hp, user.watchlist, s),
                 !.watched = WatchedSet(hp, user.watched, s, user_rating)]
    IN IF user_rating /= None
       THEN LET r == AddUserRating(hp[s], user_rating) IN
            [raised |-> r.raised, user |-> u1,
             heap |-> [hp EXCEPT ![s] = r.show]]
       ELSE [raised |-> FALSE, user |-> u1, heap |-> hp]

UserToDict(hp, user) ==
    [username |-> user.username,
     watchlist |-> [i \in 1..Len(user.watchlist) |->
                       ShowToDict(hp[user.watchlist[i]])],
     watched |-> [i \in 1..Len(user.watched) |->
                     [show |-> ShowToDict(hp[user.watched[i].show]),
                      user_rating |-> user.watched[i].rating]]]

\* position of an exact key in a dict of [key, ref] entries, 0 when missing
KeyIndex(d, key) ==
    IF \E i \in 1..Len(d) : d[i].key = key
    THEN CHOOSE i \in 1..Len(d) : d[i].key = key
    ELSE 0

\* mutation: every snapshot becomes a Show of its own
ResolveShow_PrivateCopy(hp, all_shows, show_data) ==
    [heap |-> Append(hp, ShowFromDict(show_data)),
     shows |-> all_shows,
     s |-> Len(hp) + 1]

\* User.from_dict, the body shared by both loops: the Show a snapshot
\* resolves to in all_shows, and the heap and all_shows after the lookup
ResolveShow(hp, all_shows, show_data) ==
    LET i == KeyIndex(all_shows, show_data.title) IN
    IF i /= 0
    THEN [heap |-> hp, shows |-> all_shows, s |-> all_shows[i].ref]
    ELSE [heap |-> Append(hp, ShowFromDict(show_data)),
          shows |-> Append(all_shows,
                       [key |-> show_data.title, ref |-> Len(hp) + 1]),
          s |-> Len(hp) + 1]

RECURSIVE RestoreWatchlist(_, _, _, _)
RestoreWatchlist(items, user, hp, all_shows) ==
    IF items = <<>> THEN [user |-> user, heap |-> hp, shows |-> all_shows]
    ELSE LET r == ResolveShow(hp, all_shows, Head(items)) IN
         RestoreWatchlist(Tail(items),
             [user EXCEPT !.watchlist = Append(user.watchlist, r.s)],
             r.heap, r.shows)

RECURSIVE RestoreWatched(_, _, _, _)
RestoreWatched(items, user, hp, all_shows) ==
    IF items = <<>> THEN [user |-> user, heap |-> hp, shows |-> all_shows]
    ELSE LET r == ResolveShow(hp, all_shows, Head(items).show) IN
         RestoreWatched(Tail(items),
             [user EXCEPT !.watched =
                 WatchedSet(r.heap, user.watched, r.s, Head(items).user_rating)],
             r.heap, r.shows)

UserFromDict(data, hp, all_shows) ==
    LET w == RestoreWatchlist(data.watchlist, UserInit(data.username),
                              hp, all_shows)
    IN RestoreWatched(data.watched, w.user, w.heap, w.shows)

----------------------------------------------------------------------------
(* The data file and class ShowManager *)

Absent == [kind |-> "absent"]
Corrupt == [kind |-> "corrupt"]

IOInputs == {"ok"}

\* what the file system can answer to save_data: open() and the write
\* succeed, open() fails, or the write fails after open() emptied the file
IOOutcomes == {"ok", "open_error", "write_error"}

EmptyStore == [heap |-> <<>>, shows |-> <<>>, users |-> <<>>]

\* position in _users, 0 for None
GetUser(us, username) ==
    IF \E i \in 1..Len(us) : us[i].username = username
    THEN CHOOSE i \in 1..Len(us) : us[i].username = username
    ELSE IF \E i \in 1..Len(us) : Lower(us[i].username) = Lower(username)
    THEN CHOOSE i \in 1..Len(us) :
            /\ Lower(us[i].username) = Lower(username)
            /\ \A j \in 1..(i - 1) : Lower(us[j].username) /= Lower(username)
    ELSE 0

\* reference of the Show, 0 for None
GetShow(sh, title) ==
    IF \E i \in 1..Len(sh) : sh[i].key = title
    THEN sh[CHOOSE i \in 1..Len(sh) : sh[i].key = title].ref
    ELSE IF \E i \in 1..Len(sh) : Lower(sh[i].key) = Lower(title)
    THEN sh[CHOOSE i \in 1..Len(sh) :
            /\ Lower(sh[i].key) = Lower(title)
            /\ \A j \in 1..(i - 1) : Lower(sh[j].key) /= Lower(title)].ref
    ELSE 0

ToDocument(st) ==
    [kind |-> "doc",
     shows |-> [i \in 1..Len(st.shows) |-> ShowToDict(st.heap[st.shows[i].ref])],
     users |-> [j \in 1..Len(st.users) |-> UserToDict(st.heap, st.users[j])]]

\* the file after save_data: written, untouched when open() fails, or cut
\* short when the write fails after open() truncated it
SaveData(st, f, io) ==
    CASE io = "ok"          -> ToDocument(st)
      [] io = "open_error"  -> f
      [] io = "write_error" -> Corrupt

\* self._shows[show.title] = show; an instance whose key is overwritten is
\* referenced by nothing, so its heap slot is reused
RECURSIVE LoadShows(_, _, _)
LoadShows(items, hp, sh) ==
    IF items = <<>> THEN [heap |-> hp, shows |-> sh]
    ELSE LET show == ShowFromDict(Head(items))
             i == KeyIndex(sh, show.title)
         IN IF i /= 0
            THEN LoadShows(Tail(items), [hp EXCEPT ![sh[i].ref] = show], sh)
            ELSE LoadShows(Tail(items), Append(hp, show),
                     Append(sh, [key |-> show.title, ref |-> Len(hp) + 1]))

\* self._users[user.username] = user
RECURSIVE LoadUsers(_, _)
LoadUsers(items, st) ==
    IF items = <<>> THEN st
    ELSE LET r == UserFromDict(Head(items), st.heap, st.shows)
             i == IF \E k \in 1..Len(st.users) :
                        st.users[k].username = r.user.username
                  THEN CHOOSE k \in 1..Len(st.users) :
                        st.users[k].username = r.user.username
                  ELSE 0
         IN LoadUsers(Tail(items),
                [heap |-> r.heap, shows |-> r.shows,
                 users |-> IF i /= 0 THEN [st.users EXCEPT ![i] = r.user]
                           ELSE Append(st.users, r.user)])

\* the store after load_data on store st; _shows and _users are cleared only
\* after json.load succeeded
LoadData(st, f) ==
    CASE f.kind = "absent"  -> st
      [] f.kind = "corrupt" -> st
      [] f.kind = "doc"     ->
            LET l == LoadShows(f.shows, <<>>, <<>>) IN
            LoadUsers(f.users, [heap |-> l.heap, shows |-> l.shows, users |-> <<>>])

----------------------------------------------------------------------------
(* get_recommendations *)

RECURSIVE CountGenres(_, _)
CountGenres(genres, dist) ==
    IF genres = <<>> THEN dist
    ELSE LET g == Head(genres) IN
         CountGenres(Tail(genres),
            IF \E i \in 1..Len(dist) : dist[i].genre = g
            THEN [i \in 1..Len(dist) |->
                    IF dist[i].genre = g
                    THEN [genre |-> g, count |-> dist[i].count + 1]
                    ELSE dist[i]]
            ELSE Append(dist, [genre |-> g, count |-> 1]))

\* dict(Counter(genres)): genres in order of first occurrence in _watched
GetGenreDistribution(hp, user) ==
    CountGenres([i \in 1..Len(user.watched) |-> hp[user.watched[i].show].genre],
                <<>>)

\* max(genre_dist, key=genre_dist.get): the first key with the largest count
FavoriteGenre(dist) ==
    dist[CHOOSE i \in 1..Len(dist) :
            /\ \A j \in 1..Len(dist) : dist[j].count <= dist[i].count
            /\ \A j \in 1..(i - 1) : dist[j].count < dist[i].count].genre

RECURSIVE Candidates(_, _, _, _)
Candidates(hp, sh, user, genre) ==
    IF sh = <<>> THEN <<>>
    ELSE LET s == Head(sh).ref
             rest == Candidates(hp, Tail(sh), user, genre)
         IN IF /\ hp[s].genre = genre
               /\ ~InWatched(hp, user, s)
               /\ ~InWatchlist(hp, user, s)
            THEN <<s>> \o rest
            ELSE rest

\* mutation: the sort is not reversed
InsertDesc_Ascending(hp, sorted, s) ==
    LET higher == {i \in 1..Len(sorted) : ShowLt(hp[s], hp[sorted[i]])}
        k == IF higher = {} THEN Len(sorted) + 1
             ELSE CHOOSE i \in higher : \A j \in higher : i <= j
    IN SubSeq(sorted, 1, k - 1) \o <<s>> \o SubSeq(sorted, k, Len(sorted))

\* list.sort(reverse=True) with Show.__lt__: stable, so a show goes in front
\* of the first show of strictly lower rating
InsertDesc(hp, sorted, s) ==
    LET lower == {i \in 1..Len(sorted) : ShowLt(hp[sorted[i]], hp[s])}
        k == IF lower = {} THEN Len(sorted) + 1
             ELSE CHOOSE i \in lower : \A j \in lower : i <= j
    IN SubSeq(sorted, 1, k - 1) \o <<s>> \o SubSeq(sorted, k, Len(sorted))

RECURSIVE SortDesc(_, _, _)
SortDesc(hp, todo, sorted) ==
    IF todo = <<>> THEN sorted
    ELSE SortDesc(hp, Tail(todo), InsertDesc(hp, sorted, Head(todo)))

\* recommendations[:limit]
SliceTo(seq, limit) ==
    IF limit >= 0
    THEN SubSeq(seq, 1, IF limit < Len(seq) THEN limit ELSE Len(seq))
    ELSE SubSeq(seq, 1, IF Len(seq) + limit > 0 THEN Len(seq) + limit ELSE 0)

\* the list get_recommendations computes for the user at position u
Recommendations(st, u, limit) ==
    LET dist == GetGenreDistribution(st.heap, st.users[u]) IN
    IF dist = <<>> THEN <<>>
    ELSE SliceTo(SortDesc(st.heap,
                    Candidates(st.heap, st.shows, st.users[u], FavoriteGenre(dist)),
                    <<>>),
                 limit)

----------------------------------------------------------------------------
(* State *)

VARIABLES
    heap,     \* the Show instances
    shows,    \* ShowManager._shows
    users,    \* ShowManager._users
    file,     \* content of ShowManager._data_file
    lastOp,   \* the last call: its arguments and its outcome
    ops       \* number of calls made so far

vars == <<heap, shows, users, file, lastOp, ops>>

Store == [heap |-> heap, shows |-> shows, users |-> users]

\* u and s are the user position and Show reference the call resolved to
\* (0 when it returned before or without them); io is how the call's
\* save_data went, "" when the call did not save
Op(op, u, s, rating, ret, result) ==
    [op |-> op, u |-> u, s |-> s, rating |-> rating, ret |-> ret,
     limit |-> 0, result |-> result, io |-> ""]

Saved(call, io) == [call EXCEPT !.io = io]

\* ShowManager('show_manager_data.json') with no data file
Init ==
    /\ heap = <<>>
    /\ shows = <<>>
    /\ users = <<>>
    /\ file = Absent
    /\ lastOp = Op("init", 0, 0, None, "", <<>>)
    /\ ops = 0

----------------------------------------------------------------------------
(* Operations *)

Tick ==
    /\ ops < MaxOps
    /\ ops' = ops + 1

\* an early return: nothing changes
Return(op, ret) ==
    /\ UNCHANGED <<heap, shows, users, file>>
    /\ lastOp' = Op(op, 0, 0, None, ret, <<>>)

AddShow(title, genre, duration, rating, io) ==
    /\ Tick
    /\ IF KeyIndex(shows, title) /= 0
       THEN Return("add_show", "exists")
       ELSE /\ heap' = Append(heap, ShowInit(title, genre, duration, rating))
            /\ shows' = Append(shows, [key |-> title, ref |-> Len(heap) + 1])
            /\ UNCHANGED users
            /\ file' = SaveData([heap |-> heap', shows |-> shows', users |-> users],
                                file, io)
            /\ lastOp' = Saved(Op("add_show", 0, Len(heap) + 1, rating, "added",
                                  <<>>), io)

CreateUser(username, io) ==
    LET exists == \E i \in 1..Len(users) : users[i].username = username IN
    /\ Tick
    /\ IF exists
       THEN Return("create_user", "exists")
       ELSE /\ users' = Append(users, UserInit(username))
            /\ UNCHANGED <<heap, shows>>
            /\ file' = SaveData([heap |-> heap, shows |-> shows, users |-> users'],
                                file, io)
            /\ lastOp' = Saved(Op("create_user", Len(users) + 1, 0, None,
                                  "created", <<>>), io)

\* mutation: the workflow does not save
AddShowToWatchlist_NoSave(username, show_title, io) ==
    LET u == GetUser(users, username)
        s == GetShow(shows, show_title)
        op == "add_show_to_watchlist"
    IN /\ Tick
       /\ u /= 0 /\ shows /= <<>> /\ show_title /= "" /\ s /= 0
       /\ LET r == AddToWatchlist(heap, users[u], s) IN
          /\ users' = [users EXCEPT ![u] = r.user]
          /\ UNCHANGED <<heap, shows, file>>
          /\ lastOp' = Op(op, u, s, None, IF r.ret THEN "added" ELSE "rejected",
                          <<>>)

\* The workflow returns before it touches anything when the user or the show
\* is not found or no title is entered (lines 370-389): those are its guard.
AddShowToWatchlist(username, show_title, io) ==
    LET u == GetUser(users, username)
        s == GetShow(shows, show_title)
        op == "add_show_to_watchlist"
    IN /\ Tick
       /\ u /= 0 /\ shows /= <<>> /\ show_title /= "" /\ s /= 0
       /\ LET r == AddToWatchlist(heap, users[u], s) IN
          IF r.ret
          THEN /\ users' = [users EXCEPT ![u] = r.user]
               /\ UNCHANGED <<heap, shows>>
               /\ file' = SaveData([heap |-> heap, shows |-> shows,
                                    users |-> users'], file, io)
               /\ lastOp' = Saved(Op(op, u, s, None, "added", <<>>), io)
          ELSE /\ UNCHANGED <<heap, shows, users, file>>
               /\ lastOp' = Op(op, u, s, None, "rejected", <<>>)

\* Guard: the returns of lines 398-418 and the ValueError of float() (line
\* 427), none of which touches anything.  rating is float(rating_input) or None.
MarkShowAsWatched(username, show_title, rating, io) ==
    LET u == GetUser(users, username)
        s == GetShow(shows, show_title)
        op == "mark_show_as_watched"
    IN /\ Tick
       /\ u /= 0 /\ show_title /= "" /\ s /= 0
       /\ users[u].watchlist /= <<>>
       /\ IF rating /= None /\ (FracLess(rating, R(0)) \/ FracLess(R(10), rating))
          THEN /\ UNCHANGED <<heap, shows, users, file>>
               /\ lastOp' = Op(op, u, s, rating, "bad_rating", <<>>)
          ELSE LET r == MarkAsWatched(heap, users[u], s, rating) IN
               /\ heap' = r.heap
               /\ users' = [users EXCEPT ![u] = r.user]
               /\ UNCHANGED shows
               /\ file' = SaveData([heap |-> heap', shows |-> shows,
                                    users |-> users'], file, io)
               /\ lastOp' = Saved(Op(op, u, s, rating, "marked", <<>>), io)

\* user = manager.get_user(username); user.add_to_watchlist(manager.get_show(title))
CallAddToWatchlist(username, title) ==
    LET u == GetUser(users, username)
        s == GetShow(shows, title)
    IN /\ Tick
       /\ u /= 0 /\ s /= 0
       /\ LET r == AddToWatchlist(heap, users[u], s) IN
          /\ users' = [users EXCEPT ![u] = r.user]
          /\ UNCHANGED <<heap, shows, file>>
          /\ lastOp' = Op("add_to_watchlist", u, s, None,
                          IF r.ret THEN "True" ELSE "False", <<>>)

\* user.mark_as_watched(manager.get_show(title), rating)
CallMarkAsWatched(username, title, rating) ==
    LET u == GetUser(users, username)
        s == GetShow(shows, title)
    IN /\ Tick
       /\ u /= 0 /\ s /= 0
       /\ LET r == MarkAsWatched(heap, users[u], s, rating) IN
          /\ heap' = r.heap
          /\ users' = [users EXCEPT ![u] = r.user]
          /\ UNCHANGED <<shows, file>>
          /\ lastOp' = Op("mark_as_watched", u, s, rating,
                          IF r.raised THEN "raised" ELSE "True", <<>>)

\* manager.get_show(title).rating = value
CallRatingSetter(title, value) ==
    LET s == GetShow(shows, title) IN
    /\ Tick
    /\ s /= 0
    /\ LET r == RatingSetter(heap[s], value) IN
       /\ heap' = [heap EXCEPT ![s] = r.show]
       /\ UNCHANGED <<shows, users, file>>
       /\ lastOp' = Op("rating", 0, s, value,
                       IF r.raised THEN "raised" ELSE "None", <<>>)

\* manager.get_show(title).add_user_rating(value)
CallAddUserRating(title, value) ==
    LET s == GetShow(shows, title) IN
    /\ Tick
    /\ s /= 0
    /\ LET r == AddUserRating(heap[s], value) IN
       /\ heap' = [heap EXCEPT ![s] = r.show]
       /\ UNCHANGED <<shows, users, file>>
       /\ lastOp' = Op("add_user_rating", 0, s, value,
                       IF r.raised THEN "raised" ELSE "None", <<>>)

CallSaveData(io) ==
    /\ Tick
    /\ file' = SaveData(Store, file, io)
    /\ UNCHANGED <<heap, shows, users>>
    /\ lastOp' = Saved(Op("save_data", 0, 0, None, "None", <<>>), io)

CallLoadData ==
    LET st == LoadData(Store, file) IN
    /\ Tick
    /\ heap' = st.heap
    /\ shows' = st.shows
    /\ users' = st.users
    /\ UNCHANGED file
    /\ lastOp' = Op("load_data", 0, 0, None, "None", <<>>)

\* a new run of the program: ShowManager.__init__ on the same data file
NewShowManager ==
    LET st == LoadData(EmptyStore, file) IN
    /\ Tick
    /\ heap' = st.heap
    /\ shows' = st.shows
    /\ users' = st.users
    /\ UNCHANGED file
    /\ lastOp' = Op("__init__", 0, 0, None, "None", <<>>)

\* a query: it changes nothing, so it is not counted in ops; result is the
\* list the method has computed when it returns
GetRecommendations(username, limit) ==
    LET u == GetUser(users, username) IN
    /\ UNCHANGED <<heap, shows, users, file, ops>>
    /\ lastOp' = [Op("get_recommendations", u, 0, None, "None",
                     IF u = 0 THEN <<>> ELSE Recommendations(Store, u, limit))
                  EXCEPT !.limit = limit]

----------------------------------------------------------------------------
(* Specifications *)

Next ==
    \/ \E in \in ShowInputs, io \in IOInputs :
          AddShow(in[1], in[2], in[3], in[4], io)
    \/ \E n \in NewUserInputs, io \in IOInputs : CreateUser(n, io)
    \/ \E n \in UserInputs, t \in TitleInputs, io \in IOInputs :
          AddShowToWatchlist(n, t, io)
    \/ \E n \in UserInputs, t \in TitleInputs, r \in RatingInputs,
          io \in IOInputs :
          MarkShowAsWatched(n, t, r, io)
    \/ \E n \in UserInputs, t \in TitleInputs : CallAddToWatchlist(n, t)
    \/ \E n \in UserInputs, t \in TitleInputs, r \in RatingInputs :
          CallMarkAsWatched(n, t, r)
    \/ \E t \in TitleInputs, v \in ValueInputs : CallRatingSetter(t, v)
    \/ \E t \in TitleInputs, v \in RatingInputs \ {None} :
          CallAddUserRating(t, v)
    \/ \E io \in IOInputs : CallSaveData(io)
    \/ CallLoadData
    \/ NewShowManager

Spec == Init /\ [][Next]_vars

----------------------------------------------------------------------------
(* Recommendations over a catalogue of one genre and a show of another *)

RecShowInputs ==
    { <<"A", "Sci-Fi", 148, R(9)>>,
      <<"B", "Sci-Fi", 169, R(7)>>,
      <<"C", "Sci-Fi", 136, R(8)>>,
      <<"c", "Drama", 120, R(8)>> }

RecTitleInputs == {"A", "B", "C", "c"}

NextRec ==
    \/ \E in \in RecShowInputs : AddShow(in[1], in[2], in[3], in[4], "ok")
    \/ CreateUser("ann", "ok")
    \/ \E t \in RecTitleInputs : CallAddToWatchlist("ann", t)
    \/ \E t \in RecTitleInputs, r \in {None, R(4)} : CallMarkAsWatched("ann", t, r)
    \/ \E n \in {"ann", "BOB"}, limit \in 0..MaxLimit : GetRecommendations(n, limit)

SpecRec == Init /\ [][NextRec]_vars

----------------------------------------------------------------------------
(* Loading a well-formed document that this program did not write: user    *)
(* snapshots may name titles the shows list lacks, and may be out of date  *)

MaxDocOps == 2

Snapshot(title, genre, duration, rating, user_ratings) ==
    [title |-> title, genre |-> genre, duration |-> duration,
     rating |-> rating, user_ratings |-> user_ratings]

SnapHeat == Snapshot("Heat", "Crime", 170, R(8), <<>>)
SnapHeatOld == Snapshot("Heat", "Crime", 170, R(4), <<R(4)>>)
SnapLower == Snapshot("heat", "Drama", 95, R(0), <<>>)
SnapDune == Snapshot("Dune", "Crime", 155, R(7), <<>>)

DocShowLists == {<<>>, <<SnapHeat>>, <<SnapHeat, SnapDune>>}

DocWatchlists == {<<>>, <<SnapHeatOld>>, <<SnapDune>>, <<SnapDune, SnapHeatOld>>}

DocWatched ==
    {<<>>,
     <<[show |-> SnapHeatOld, user_rating |-> R(4)]>>,
     <<[show |-> SnapDune, user_rating |-> None]>>,
     <<[show |-> SnapLower, user_rating |-> None]>>}

DocUser(name) ==
    {[username |-> name, watchlist |-> wl, watched |-> wd] :
        wl \in DocWatchlists, wd \in DocWatched}

DocUserLists ==
    {<<>>} \cup {<<a>> : a \in DocUser("ann")}
           \cup {<<a, b>> : a \in DocUser("ann"), b \in DocUser("bob")}

DocInputs ==
    {[kind |-> "doc", shows |-> sl, users |-> ul] :
        sl \in DocShowLists, ul \in DocUserLists}

InitDoc ==
    /\ heap = <<>>
    /\ shows = <<>>
    /\ users = <<>>
    /\ file \in DocInputs
    /\ lastOp = Op("init", 0, 0, None, "", <<>>)
    /\ ops = 0

DocLoad ==
    /\ ops < MaxDocOps
    /\ NewShowManager

DocMarkAsWatched ==
    /\ ops < MaxDocOps
    /\ \E n \in NewUserInputs, t \in {"Heat", "heat", "Dune"}, r \in RatingInputs :
          CallMarkAsWatched(n, t, r)

NextDoc ==
    \/ DocLoad
    \/ DocMarkAsWatched

SpecDoc == InitDoc /\ [][NextDoc]_vars

----------------------------------------------------------------------------
(* The manager on a file system whose writes can fail *)

NextIO ==
    \/ \E in \in ShowInputs, io \in IOOutcomes :
          AddShow(in[1], in[2], in[3], in[4], io)
    \/ \E n \in NewUserInputs, io \in IOOutcomes : CreateUser(n, io)
    \/ \E n \in UserInputs, t \in TitleInputs, io \in IOOutcomes :
          AddShowToWatchlist(n, t, io)
    \/ \E io \in IOOutcomes : CallSaveData(io)
    \/ CallLoadData
    \/ NewShowManager

SpecIO == Init /\ [][NextIO]_vars

----------------------------------------------------------------------------
(* Shows, users, watchlists and watched marks with ratings in [0,10] only  *)

ValidRatingInputs == {r \in RatingInputs : r = None \/ InRange(r)}

NextRate ==
    \/ \E in \in ShowInputs : AddShow(in[1], in[2], in[3], in[4], "ok")
    \/ \E n \in NewUserInputs : CreateUser(n, "ok")
    \/ \E n \in UserInputs, t \in TitleInputs : CallAddToWatchlist(n, t)
    \/ \E n \in UserInputs, t \in TitleInputs, r \in ValidRatingInputs :
          CallMarkAsWatched(n, t, r)

SpecRate == Init /\ [][NextRate]_vars

----------------------------------------------------------------------------
(* Vocabulary of the properties *)

Title(s) == heap[s].title

WatchlistTitles(user) ==
    [i \in 1..Len(user.watchlist) |-> heap[user.watchlist[i]].title]

WatchedTitles(user) ==
    {heap[user.watched[i].show].title : i \in 1..Len(user.watched)}

\* the title, under any letter case, is in the sequence / set of titles
TitleAmong(title, titles) == \E t \in titles : Lower(t) = Lower(title)

Range(seq) == {seq[i] : i \in 1..Len(seq)}

----------------------------------------------------------------------------
(* C1: for every user and every title, compared case-insensitively, the    *)
(* title is never both in the user's watchlist and in the user's watched   *)
(* mapping.                                                                *)

C1_MutualExclusion ==
    \A u \in 1..Len(users) :
        \A t \in Range(WatchlistTitles(users[u])) :
            ~TitleAmong(t, WatchedTitles(users[u]))

\* a user has marked a show as watched while another stays in the watchlist
C1_Witness ==
    /\ lastOp.op \in {"mark_as_watched", "mark_show_as_watched"}
    /\ lastOp.ret \in {"True", "marked"}
    /\ users[lastOp.u].watchlist /= <<>>
    /\ users[lastOp.u].watched /= <<>>

----------------------------------------------------------------------------
(* C2: save_data followed by load_data into a fresh ShowManager gives the  *)
(* same shows (title, genre, duration, rating, user_ratings) and the same  *)
(* users, each with the same watchlist titles in the same order and the    *)
(* same watched titles with the same ratings.                              *)

ShowsOf(st) == {st.heap[st.shows[i].ref] : i \in 1..Len(st.shows)}

UserView(st, user) ==
    [username |-> user.username,
     watchlist |-> [i \in 1..Len(user.watchlist) |->
                       st.heap[user.watchlist[i]].title],
     watched |-> {<<st.heap[user.watched[i].show].title, user.watched[i].rating>> :
                     i \in 1..Len(user.watched)}]

UsersOf(st) == {UserView(st, st.users[j]) : j \in 1..Len(st.users)}

C2_RoundTrip ==
    LET st == LoadData(EmptyStore, SaveData(Store, file, "ok")) IN
    /\ Len(st.shows) = Len(shows)
    /\ ShowsOf(st) = ShowsOf(Store)
    /\ Len(st.users) = Len(users)
    /\ UsersOf(st) = UsersOf(Store)

\* a fresh ShowManager has loaded a file holding a rated watched show
C2_Witness ==
    /\ lastOp.op = "__init__"
    /\ \E u \in 1..Len(users) : \E i \in 1..Len(users[u].watched) :
          /\ users[u].watched[i].rating /= None
          /\ heap[users[u].watched[i].show].user_ratings /= <<>>

----------------------------------------------------------------------------
(* C3: after load_data of a well-formed document every Show referenced by  *)
(* a user's watchlist or watched mapping is the instance stored in the     *)
(* library under that title, so a rating recorded through one user's       *)
(* mark_as_watched is the rating and user_ratings seen through the library *)
(* and through every user referencing that title.                          *)

UserRefs(user) ==
    Range(user.watchlist) \cup {user.watched[i].show : i \in 1..Len(user.watched)}

\* the references under which the title is reachable from store st
RefsTo(st, title) ==
    {st.shows[i].ref : i \in {k \in 1..Len(st.shows) : st.shows[k].key = title}}
      \cup {r \in UNION {UserRefs(st.users[u]) : u \in 1..Len(st.users)} :
               st.heap[r].title = title}

C3_SharedIdentity ==
    [][/\ \A u \in 1..Len(users') : \A r \in UserRefs(users'[u]) :
             \E i \in 1..Len(shows') :
                 shows'[i].key = heap'[r].title /\ shows'[i].ref = r
       /\ (lastOp'.op = "mark_as_watched" /\ lastOp'.ret = "True"
              /\ lastOp'.rating /= None) =>
             \A r \in RefsTo(Store', heap[lastOp'.s].title) :
                 /\ heap'[r].user_ratings =
                       Append(heap[lastOp'.s].user_ratings, lastOp'.rating)
                 /\ heap'[r].rating = Mean(heap'[r].user_ratings)
      ]_vars

\* both users were loaded with a title the shows list lacks; one has rated it
C3_Witness ==
    /\ lastOp.op = "mark_as_watched"
    /\ lastOp.ret = "True"
    /\ lastOp.rating /= None
    /\ \A i \in 1..Len(file.shows) : file.shows[i].title /= Title(lastOp.s)
    /\ Len(file.users) = 2
    /\ \A j \in 1..Len(file.users) :
          \/ \E i \in 1..Len(file.users[j].watchlist) :
                file.users[j].watchlist[i].title = Title(lastOp.s)
          \/ \E i \in 1..Len(file.users[j].watched) :
                file.users[j].watched[i].show.title = Title(lastOp.s)
    /\ \A u \in 1..Len(users) : lastOp.s \in UserRefs(users[u])

----------------------------------------------------------------------------
(* C4: the library never holds two entries whose titles are equal when     *)
(* lower-cased.                                                            *)

C4_NoCaseDuplicateTitles ==
    \A i, j \in 1..Len(shows) :
        i /= j => Lower(shows[i].key) /= Lower(shows[j].key)

----------------------------------------------------------------------------
(* C5: every show's rating and every element of its user_ratings lies in   *)
(* [0,10].                                                                 *)

C5_RatingRange ==
    \A s \in 1..Len(heap) :
        /\ InRange(heap[s].rating)
        /\ \A i \in 1..Len(heap[s].user_ratings) : InRange(heap[s].user_ratings[i])

----------------------------------------------------------------------------
(* C6: every show whose user_ratings is non-empty has                      *)
(* rating * len(user_ratings) = sum(user_ratings).                         *)

C6_RatingIsMean ==
    \A s \in 1..Len(heap) :
        LET rs == heap[s].user_ratings
            total == SumRatings(rs)
        IN rs /= <<>> =>
              heap[s].rating[1] * Len(rs) * total[2] = total[1] * heap[s].rating[2]

----------------------------------------------------------------------------
(* C7: a call that fails with a validation error leaves the users' lists   *)
(* and the shows exactly as they were before the call.                     *)

C7_FailureAtomicity ==
    [][lastOp'.ret = "raised" => heap' = heap /\ users' = users /\ shows' = shows]_vars

----------------------------------------------------------------------------
(* C8: User.add_to_watchlist(show) returns False and changes nothing when  *)
(* a title equal to show.title ignoring case is in the user's watchlist or *)
(* watched mapping; otherwise it appends show to the watchlist and returns *)
(* True.  No watchlist holds two titles equal ignoring case.               *)

NoDuplicateInWatchlist(user) ==
    \A i, j \in 1..Len(user.watchlist) :
        i /= j => Lower(heap[user.watchlist[i]].title)
                     /= Lower(heap[user.watchlist[j]].title)

C8_WatchlistAdmission ==
    [][/\ lastOp'.op = "add_to_watchlist" =>
            LET u == lastOp'.u
                s == lastOp'.s
                present ==
                    \/ TitleAmong(Title(s), Range(WatchlistTitles(users[u])))
                    \/ TitleAmong(Title(s), WatchedTitles(users[u]))
            IN /\ heap' = heap /\ shows' = shows
               /\ \A v \in 1..Len(users) : v /= u => users'[v] = users[v]
               /\ IF present
                  THEN lastOp'.ret = "False" /\ users' = users
                  ELSE /\ lastOp'.ret = "True"
                       /\ users'[u].watchlist = Append(users[u].watchlist, s)
                       /\ users'[u].watched = users[u].watched
       /\ \A u \in 1..Len(users') : NoDuplicateInWatchlist(users[u])'
      ]_vars

\* add_to_watchlist has refused a title that differs only by case from one
\* the user already has
C8_Witness ==
    /\ lastOp.op = "add_to_watchlist"
    /\ lastOp.ret = "False"
    /\ Title(lastOp.s) \notin Range(WatchlistTitles(users[lastOp.u]))
    /\ Title(lastOp.s) \notin WatchedTitles(users[lastOp.u])

----------------------------------------------------------------------------
(* C9: for a user with watched shows the list get_recommendations computes *)
(* holds only library shows of the user's most frequent watched genre,     *)
(* none whose title matches, ignoring case, a title in the user's          *)
(* watchlist or watched mapping, in order of non-increasing rating, and at *)
(* most limit of them; for a user without watched shows it is empty.       *)

WatchedCount(user, genre) ==
    Cardinality({i \in 1..Len(user.watched) :
                    heap[user.watched[i].show].genre = genre})

----------------------------------------------------------------------------
(* C10: when add_show, create_user, add_show_to_watchlist or               *)
(* mark_show_as_watched returns after changing the store, the file holds   *)
(* the serialization of the whole store; when it soft-fails, neither the   *)
(* store nor the file changes.                                             *)

C10_PersistAfterMutation ==
    [][lastOp'.op \in {"add_show", "create_user", "add_show_to_watchlist",
                       "mark_show_as_watched"} =>
          IF lastOp'.ret \in {"added", "created", "marked"}
          THEN file' = ToDocument(Store')
          ELSE Store' = Store /\ file' = file
      ]_vars

\* mark_show_as_watched has recorded a rating and the file holds the store
C10_Witness ==
    /\ lastOp.op = "mark_show_as_watched"
    /\ lastOp.ret = "marked"
    /\ file = ToDocument(Store)
    /\ \E s \in 1..Len(heap) : Len(heap[s].user_ratings) >= 1

----------------------------------------------------------------------------
(* C11: load_data on a data file whose content is not valid JSON returns   *)
(* without raising and leaves shows and users empty, whatever they held    *)
(* before the call.                                                        *)

C11_MalformedLoadEmptiesStore ==
    [][(lastOp'.op \in {"load_data", "__init__"} /\ file.kind = "corrupt") =>
          /\ lastOp'.ret = "None"
          /\ shows' = <<>>
          /\ users' = <<>>
      ]_vars

----------------------------------------------------------------------------
(* C12: when a save_data fails on a data file that holds a persisted       *)
(* document, the file holds the same document afterwards; a failing call   *)
(* of save_data returns without raising and leaves the store as it was.    *)

C12_FailedSaveKeepsFile ==
    [][(lastOp'.io \in IOOutcomes \ {"ok"} /\ file.kind = "doc") =>
          /\ file' = file
          /\ lastOp'.op = "save_data" => (lastOp'.ret = "None" /\ Store' = Store)
      ]_vars

----------------------------------------------------------------------------
(* C13: for every Show instance, its user_ratings holds exactly one entry  *)
(* for each user whose watched mapping has that instance as a key with a   *)
(* rating, and the entry is that rating: each value occurs in user_ratings *)
(* as often as there are such users holding it.                            *)

\* the watched entries <<user, position>> that rate the instance s
RatersOf(s) ==
    {p \in UNION {{<<u, i>> : i \in 1..Len(users[u].watched)} :
                     u \in 1..Len(users)} :
        /\ users[p[1]].watched[p[2]].show = s
        /\ users[p[1]].watched[p[2]].rating /= None}

C13_OneRatingPerUser ==
    \A s \in 1..Len(heap) :
        LET rs == heap[s].user_ratings
            given == {users[p[1]].watched[p[2]].rating : p \in RatersOf(s)}
        IN \A v \in Range(rs) \cup given :
              Cardinality({k \in 1..Len(rs) : rs[k] = v})
                 = Cardinality({p \in RatersOf(s) :
                                  users[p[1]].watched[p[2]].rating = v})

====
